---- MODULE Spec2Model ----
(***************************************************************************)
(* A model of the error taxonomy of beverost (src/src/errors.ts), of its    *)
(* Logger (src/src/logger.ts) and of its ApiService (src/src/api.ts).      *)
(*                                                                         *)
(* JavaScript values are records [t, s, n, a] so that values of different  *)
(* types can be told apart without comparing a string with a number.       *)
(* Calls are run on an explicit call stack: a frame per constructor        *)
(* activation, an exception in flight in exc.                              *)
(***************************************************************************)
EXTENDS Integers, Sequences, FiniteSets, TLC

(***************************************************************************)
(* Bounds of the model                                                     *)
(***************************************************************************)
\* frames the call stack holds before the engine raises RangeError
MaxStack == 4
\* error objects the caller keeps
MaxErrors == 1
\* records kept of calls to logger operations
MaxEmissions == 3

\* the Loggers after which a caller constructs no further Logger
MaxLoggers == 3
\* the HTTP requests after which a caller fetches no more
MaxRequests == 2
\* the transports a caller adds to a Logger before it removes one
MaxAdded == 1

(***************************************************************************)
(* JavaScript values                                                       *)
(***************************************************************************)
Undef == [t |-> "undefined", s |-> "", n |-> 0, a |-> <<>>]

StrV(x) == [t |-> "string", s |-> x, n |-> 0, a |-> <<>>]

NumV(x) == [t |-> "number", s |-> "", n |-> x, a |-> <<>>]

ArrV(x) == [t |-> "array", s |-> "", n |-> 0, a |-> x]

\* the condition of `v ? ... : ...`
Truthy(v) ==
    CASE v.t = "undefined" -> FALSE
      [] v.t = "string" -> v.s # ""
      [] v.t = "number" -> v.n # 0
      [] v.t = "array" -> TRUE

RECURSIVE Join(_, _)
\* Array.prototype.join
Join(arr, sep) ==
    IF Len(arr) = 0 THEN ""
    ELSE IF Len(arr) = 1 THEN arr[1]
    ELSE arr[1] \o sep \o Join(Tail(arr), sep)

\* ${v} in a template literal
Str(v) ==
    CASE v.t = "undefined" -> "undefined"
      [] v.t = "string" -> v.s
      [] v.t = "number" -> ToString(v.n)
      [] v.t = "array" -> Join(v.a, ",")

(***************************************************************************)
(* The error classes                                                       *)
(***************************************************************************)
Kinds ==
    { "ApiError", "NetworkError", "ParseError", "ValidationError",
      "AuthenticationError", "AuthorizationError", "RateLimitError",
      "DatabaseError", "ConfigurationError", "ExternalServiceError",
      "FileNotFoundError", "LogDirectoryNotFoundError",
      "LogFileOperationError", "LoggerInitializationError" }

\* the parameter properties of each constructor, in declaration order
ParamProps(kind) ==
    CASE kind = "ApiError" -> <<"status", "requestId">>
      [] kind = "NetworkError" -> <<"code">>
      [] kind = "ParseError" -> <<"source">>
      [] kind = "ValidationError" -> <<"fields">>
      [] kind = "AuthenticationError" -> <<"userId">>
      [] kind = "AuthorizationError" -> <<"resource", "action">>
      [] kind = "RateLimitError" -> <<"retryAfter">>
      [] kind = "DatabaseError" -> <<"operation">>
      [] kind = "ConfigurationError" -> <<"configKey">>
      [] kind = "ExternalServiceError" -> <<"serviceName">>
      [] kind = "FileNotFoundError" -> <<"path">>
      [] kind = "LogDirectoryNotFoundError" -> <<"directoryPath">>
      [] kind = "LogFileOperationError" -> <<"filePath", "operation">>
      [] kind = "LoggerInitializationError" -> <<"component">>

\* the parameter properties declared without `?`
RequiredProps == {"status", "serviceName", "directoryPath", "filePath"}

\* the reference to a logger that is not there, and the caller's mock
UndefinedLogger == -1

mockLogger == 0

\* an object on which no property has been set yet
BlankError ==
    [ cls |-> "", name |-> "Error", message |-> "", logger |-> UndefinedLogger,
      status |-> Undef, requestId |-> Undef, code |-> Undef, source |-> Undef,
      fields |-> Undef, userId |-> Undef, resource |-> Undef, action |-> Undef,
      retryAfter |-> Undef, operation |-> Undef, configKey |-> Undef,
      serviceName |-> Undef, path |-> Undef, directoryPath |-> Undef,
      filePath |-> Undef, component |-> Undef ]

\* the line of ExternalServiceError.log() as the repository's test expects it
RenderExternalServiceLast(e) ==
    "External Service Error: " \o e.message
      \o " (Service: " \o Str(e.serviceName) \o ")"

\* the line ExternalServiceError.log() builds
RenderExternalService(e) ==
    "External Service Error (" \o Str(e.serviceName) \o "): " \o e.message

\* the line each class's log() builds
Render(e) ==
    CASE e.cls = "ApiError" ->
           "API Error " \o Str(e.status) \o ": " \o e.message
             \o (IF Truthy(e.requestId)
                 THEN " (Request ID: " \o Str(e.requestId) \o ")" ELSE "")
      [] e.cls = "NetworkError" ->
           "Network Error"
             \o (IF Truthy(e.code) THEN " (" \o Str(e.code) \o ")" ELSE "")
             \o ": " \o e.message
      [] e.cls = "ParseError" ->
           "Parse Error"
             \o (IF Truthy(e.source) THEN " in " \o Str(e.source) ELSE "")
             \o ": " \o e.message
      [] e.cls = "ValidationError" ->
           "Validation Error: " \o e.message
             \o (IF Truthy(e.fields)
                 THEN " (Fields: " \o Join(e.fields.a, ", ") \o ")" ELSE "")
      [] e.cls = "AuthenticationError" ->
           "Authentication Error: " \o e.message
             \o (IF Truthy(e.userId)
                 THEN " (User ID: " \o Str(e.userId) \o ")" ELSE "")
      [] e.cls = "AuthorizationError" ->
           "Authorization Error: " \o e.message
             \o (IF Truthy(e.resource)
                 THEN " (Resource: " \o Str(e.resource) \o ")" ELSE "")
             \o (IF Truthy(e.action)
                 THEN " (Action: " \o Str(e.action) \o ")" ELSE "")
      [] e.cls = "RateLimitError" ->
           "Rate Limit Error: " \o e.message
             \o (IF Truthy(e.retryAfter)
                 THEN " (Retry After: " \o Str(e.retryAfter) \o "s)" ELSE "")
      [] e.cls = "DatabaseError" ->
           "Database Error: " \o e.message
             \o (IF Truthy(e.operation)
                 THEN " (Operation: " \o Str(e.operation) \o ")" ELSE "")
      [] e.cls = "ConfigurationError" ->
           "Configuration Error: " \o e.message
             \o (IF Truthy(e.configKey)
                 THEN " (Config Key: " \o Str(e.configKey) \o ")" ELSE "")
      [] e.cls = "ExternalServiceError" -> RenderExternalService(e)
      [] e.cls = "FileNotFoundError" ->
           "File Not Found Error: " \o e.message
             \o (IF Truthy(e.path)
                 THEN " (Path: " \o Str(e.path) \o ")" ELSE "")
      [] e.cls = "LogDirectoryNotFoundError" ->
           "Log Directory Not Found Error: " \o e.message
             \o " (Directory: " \o Str(e.directoryPath) \o ")"
      [] e.cls = "LogFileOperationError" ->
           "Log File Operation Error: " \o e.message
             \o " (File: " \o Str(e.filePath)
             \o (IF Truthy(e.operation)
                 THEN ", Operation: " \o Str(e.operation) ELSE "")
             \o ")"
      [] e.cls = "LoggerInitializationError" ->
           "Logger Initialization Error: " \o e.message
             \o (IF Truthy(e.component)
                 THEN " (Component: " \o Str(e.component) \o ")" ELSE "")

\* toString() as it would be if it returned the line log() builds
ToStringAsLogLine(e) == Render(e)

\* BaseError.toString()
ToStringValue(e) == e.name \o ": " \o e.message

(***************************************************************************)
(* The file system and the Logger                                          *)
(***************************************************************************)
\* the default of the Logger constructor's logFilePath parameter
DefaultLogFilePath == "logs/combined.log"

\* path.dirname on the paths the model uses
Dirname(p) ==
    CASE p = "logs/combined.log" -> "logs"
      [] p = "test_logs/test.log" -> "test_logs"
      [] p = "test_logs/subdir/new.log" -> "test_logs/subdir"
      [] p = "logs/app.log" -> "logs"
      [] p = "test_logs/app.log" -> "test_logs"
      [] p = "test_logs/subdir/app.log" -> "test_logs/subdir"
      [] OTHER -> "."

\* path.join(dir, name)
PathJoin(dir, name) == dir \o "/" \o name

\* the directories fs.mkdirSync(dir, { recursive: true }) makes sure exist
WithParents(dir) ==
    IF dir = "test_logs/subdir" THEN {"test_logs", "test_logs/subdir"}
    ELSE {dir}

Directories == {"logs"}

\* a log file path a caller passes to the Logger constructor, and its
\* directory
TestLogFile == "test_logs/test.log"

TestDirectories == {"test_logs"}

\* what setLogFilePath(filePath, options) does, given the directories that
\* exist: "init" (initLogger runs), "mkdir" (the directory is created, then
\* initLogger runs), or the name of the error it throws.  The second test is
\* made after the first block has created the directory or thrown, on the
\* log file (which may or may not exist) and on the directory again.
SetLogFilePathOutcome(existing, filePath, recursive) ==
    LET dir == Dirname(filePath)
        after == IF dir \notin existing /\ recursive
                 THEN existing \cup {dir} ELSE existing
    IN IF dir \notin existing /\ ~recursive
       THEN "LogDirectoryNotFoundError"
       ELSE IF (\E fileExists \in BOOLEAN : ~fileExists /\ dir \notin after)
                 /\ ~recursive
       THEN "FileNotFoundError"
       ELSE IF dir \notin existing THEN "mkdir" ELSE "init"

\* setLogFilePath(filePath, { recursive }) when the directories in existing
\* exist and the log file exists or not: the directories that exist
\* afterwards, and the name of the error thrown ("" when initLogger runs)
SetLogFilePathRun(existing, fileExists, filePath, recursive) ==
    LET dir == Dirname(filePath)
        after == IF dir \notin existing /\ recursive
                 THEN existing \cup WithParents(dir) ELSE existing
    IN IF dir \notin existing /\ ~recursive
       THEN [dirs |-> existing, throws |-> "LogDirectoryNotFoundError"]
       ELSE IF ~fileExists /\ dir \notin after /\ ~recursive
       THEN [dirs |-> after, throws |-> "FileNotFoundError"]
       ELSE [dirs |-> after, throws |-> ""]

(***************************************************************************)
(* The winston logger a Logger wraps                                       *)
(***************************************************************************)
\* winston's npm levels, most severe first
Severity(level) ==
    CASE level = "error" -> 0
      [] level = "warn" -> 1
      [] level = "info" -> 2
      [] level = "http" -> 3
      [] level = "verbose" -> 4
      [] level = "debug" -> 5
      [] level = "silly" -> 6

\* level.toUpperCase()
ToUpperCase(level) ==
    CASE level = "error" -> "ERROR"
      [] level = "warn" -> "WARN"
      [] level = "info" -> "INFO"
      [] level = "http" -> "HTTP"
      [] level = "verbose" -> "VERBOSE"
      [] level = "debug" -> "DEBUG"
      [] level = "silly" -> "SILLY"

\* new transports.File({ filename, level }); level "" when none is given
FileTransport(filename, level) ==
    [kind |-> "File", filename |-> filename, level |-> level, id |-> 0]

\* a transports.Console; id tells the objects apart, 0 is the one
\* initLogger makes
ConsoleTransport(id) ==
    [kind |-> "Console", filename |-> "", level |-> "", id |-> id]

\* a log format: the text cut at its placeholders
DefaultLogFormat ==
    <<"[", "{level}", "] - [", "{timestamp}", "]", "{context}", " ",
      "{message}">>

\* the time format.timestamp() stamps on a record
Timestamp == "2024-01-01 00:00:00"

\* String.prototype.replace(placeholder, by): the first occurrence only
RECURSIVE ReplaceFirst(_, _, _)
ReplaceFirst(fmt, placeholder, by) ==
    IF fmt = <<>> THEN <<>>
    ELSE IF Head(fmt) = placeholder THEN <<by>> \o Tail(fmt)
    ELSE <<Head(fmt)>> \o ReplaceFirst(Tail(fmt), placeholder, by)

\* customFormat: the line printed for a record, defaultMeta appended
CustomFormat(self, level, message) ==
    Join(ReplaceFirst(ReplaceFirst(ReplaceFirst(ReplaceFirst(
            self.logFormat,
            "{level}", ToUpperCase(level)),
            "{timestamp}", Timestamp),
            "{context}", IF self.context # ""
                         THEN " - [" \o self.context \o "]" ELSE ""),
            "{message}", message), "")
      \o " {\"service\":\"user-service\"}"

\* initLogger: a new winston logger at level 'info' with the two File
\* transports, and the Console one outside production
initLogger(self) ==
    [self EXCEPT
        !.level = "info",
        !.transports =
            << FileTransport(PathJoin(Dirname(self.logFilePath),
                                      "error.log"), "error"),
               FileTransport(self.logFilePath, ""),
               ConsoleTransport(0) >>]

\* a transport as it would be if it wrote every record, whatever its level
AcceptsEverything(self, t, level) == TRUE

\* a transport writes a record when the record is at least as severe as
\* the transport's level, or the logger's when the transport has none
Accepts(self, t, level) ==
    Severity(IF t.level # "" THEN t.level ELSE self.level)
        >= Severity(level)

\* logWithLevel(level, message): the lines that reach files, by file name
LogWithLevelWrites(self, level, message) ==
    { [file |-> self.transports[k].filename,
       line |-> CustomFormat(self, level, message)] :
        k \in {n \in 1..Len(self.transports) :
                  /\ self.transports[n].kind = "File"
                  /\ Accepts(self, self.transports[n], level)} }

\* a Logger as the constructor leaves it
NewLoggerObject(context, logFilePath) ==
    initLogger([ context |-> context, logFilePath |-> logFilePath,
                 logFormat |-> DefaultLogFormat,
                 logFileName |-> "combined.log",
                 level |-> "", transports |-> <<>> ])

(***************************************************************************)
(* State                                                                   *)
(***************************************************************************)
VARIABLES
    dirs,       \* the directories that exist
    loggers,    \* the constructed Logger objects; a Logger's id is its index
    errors,     \* the error objects the caller holds
    emissions,  \* the calls made to logger operations, in order
    stack,      \* the call stack, innermost frame last
    exc,        \* <<e>> while the exception e propagates, else <<>>
    call,       \* the caller's current or last call and how it ended
    made,       \* for each error the caller holds, what its constructor got
    api         \* the ApiService: its endpoints, the HTTP requests issued

vars == <<dirs, loggers, errors, emissions, stack, exc, call, made, api>>

\* an ApiService as its constructor leaves it: no endpoint, and no HTTP
\* request issued yet
NoApi == [endpoints |-> {}, requests |-> 0]

\* e instanceof the class of a kind: every concrete class extends BaseError
\* directly, so the prototype chain of e holds one concrete prototype
InstanceOf(e, kind) == e.cls = kind

\* the engine's error for a call that does not fit on the stack
RangeError ==
    [BlankError EXCEPT !.cls = "RangeError", !.name = "RangeError",
                       !.message = "Maximum call stack size exceeded"]

\* a frame of a concrete error constructor (and of BaseError's, under it)
ErrorFrame(kind, message, args, lg) ==
    [ fn |-> "Error", pc |-> "super", kind |-> kind, message |-> message,
      args |-> args, lg |-> lg, obj |-> BlankError,
      self |-> NewLoggerObject("", "") ]

\* a frame of the Logger constructor (and of setLogFilePath, under it)
LoggerFrame(context, logFilePath) ==
    [ fn |-> "Logger", pc |-> "try", kind |-> "", message |-> "",
      args |-> <<>>, lg |-> UndefinedLogger, obj |-> BlankError,
      self |-> NewLoggerObject(context, logFilePath) ]

Top == stack[Len(stack)]

Caller == stack[Len(stack) - 1]

SetTop(f) == [stack EXCEPT ![Len(stack)] = f]

Pop == SubSeq(stack, 1, Len(stack) - 1)

NoCall ==
    [ op |-> "none", status |-> "none", kind |-> "", message |-> "",
      args |-> <<>>, lg |-> UndefinedLogger, target |-> 0, emBefore |-> 0,
      lgBefore |-> 0, dirs |-> {}, thrown |-> BlankError, value |-> "",
      context |-> "", path |-> "", recursive |-> FALSE,
      fileExists |-> FALSE, level |-> "", written |-> {},
      transport |-> 0,
      id |-> "", apiBefore |-> NoApi ]

Init ==
    /\ dirs \in SUBSET Directories
    /\ loggers = <<>>
    /\ errors = <<>>
    /\ emissions = <<>>
    /\ stack = <<>>
    /\ exc = <<>>
    /\ call = NoCall
    /\ made = <<>>
    /\ api = NoApi

(***************************************************************************)
(* Inputs                                                                  *)
(***************************************************************************)
\* the message a caller passes
Messages == {"Not Found"}

\* the messages a caller that keeps one error more passes
PairMessages == {"Not Found", "Service unavailable"}

\* a sample non-empty value for each string property
Sample(prop) ==
    CASE prop = "requestId" -> "REQ123"
      [] prop = "code" -> "TIMEOUT"
      [] prop = "source" -> "JSON"
      [] prop = "userId" -> "user1"
      [] prop = "resource" -> "orders"
      [] prop = "action" -> "delete"
      [] prop = "operation" -> "INSERT"
      [] prop = "configKey" -> "port"
      [] prop = "serviceName" -> "ExternalAPI"
      [] prop = "path" -> "config.json"
      [] prop = "directoryPath" -> "logs"
      [] prop = "filePath" -> "app.log"
      [] prop = "component" -> "transport"

\* the values a caller passes for a parameter property; Undef is the
\* omitted argument
ArgVals(prop) ==
    (IF prop \in RequiredProps THEN {} ELSE {Undef})
      \cup (CASE prop = "status" -> {NumV(0), NumV(404)}
              [] prop = "retryAfter" -> {NumV(0), NumV(30)}
              [] prop = "fields" ->
                   {ArrV(<<>>), ArrV(<<"username", "email">>)}
              [] OTHER -> {StrV(""), StrV(Sample(prop))})

\* the argument lists a caller can pass to the constructor of a kind
ArgLists(kind) ==
    LET props == ParamProps(kind) IN
    IF Len(props) = 1
    THEN {<<v>> : v \in ArgVals(props[1])}
    ELSE {<<v, w>> : v \in ArgVals(props[1]), w \in ArgVals(props[2])}

\* what a caller can put where a logger would go
LoggerArgs == {UndefinedLogger, mockLogger}

(***************************************************************************)
(* Steps of a construction                                                 *)
(***************************************************************************)
\* the call of a function: a new frame, or RangeError when the stack is full
Invoke(base, frame) ==
    IF Len(base) < MaxStack
    THEN /\ stack' = Append(base, frame)
         /\ exc' = <<>>
    ELSE /\ stack' = base
         /\ exc' = <<RangeError>>

\* the logger a concrete constructor hands to BaseError's: each calls
\* super(name, message) and nothing else, whatever its caller supplied
SuperLogger(kind, lg) == UndefinedLogger

\* the names as they would be had one class been copied from another
\* without changing the string
SuperNameCopied(kind) ==
    IF kind = "AuthorizationError" THEN "AuthenticationError" ELSE kind

\* the name a concrete constructor hands to BaseError's: the string literal
\* in the super(...) call of each class
SuperName(kind) ==
    CASE kind = "ApiError" -> "ApiError"
      [] kind = "NetworkError" -> "NetworkError"
      [] kind = "ParseError" -> "ParseError"
      [] kind = "ValidationError" -> "ValidationError"
      [] kind = "AuthenticationError" -> "AuthenticationError"
      [] kind = "AuthorizationError" -> "AuthorizationError"
      [] kind = "RateLimitError" -> "RateLimitError"
      [] kind = "DatabaseError" -> "DatabaseError"
      [] kind = "ConfigurationError" -> "ConfigurationError"
      [] kind = "ExternalServiceError" -> "ExternalServiceError"
      [] kind = "FileNotFoundError" -> "FileNotFoundError"
      [] kind = "LogDirectoryNotFoundError" -> "LogDirectoryNotFoundError"
      [] kind = "LogFileOperationError" -> "LogFileOperationError"
      [] kind = "LoggerInitializationError" -> "LoggerInitializationError"

\* the message as it would be if FileNotFoundError took the path alone and
\* built its message from it
SuperMessageFromPath(kind, message) ==
    IF kind = "FileNotFoundError"
    THEN "File not found: " \o message ELSE message

\* the message a concrete constructor hands to BaseError's: its own
\* message parameter
SuperMessage(kind, message) == message

\* the prototype as it would be if one class's were installed for another
PrototypeMixedUp(kind) ==
    IF kind = "AuthorizationError" THEN "AuthenticationError" ELSE kind

\* the class whose prototype Object.setPrototypeOf(this,
\* new.target.prototype) installs: the class that was constructed
NewTargetPrototype(kind) == kind

\* log() as it would be if it reported at two levels
LogCallsTwoLevels(e) ==
    << [logger |-> e.logger, level |-> "error", message |-> Render(e)],
       [logger |-> e.logger, level |-> "warn", message |-> Render(e)] >>

\* the calls log() makes on the logger bound to e
LogCalls(e) ==
    <<[logger |-> e.logger, level |-> "error", message |-> Render(e)]>>

\* BaseError's constructor as it would be without its last statement
ConstructorSkipsLog(e) == <<>>

\* the calls the last statement of BaseError's constructor, this.log(), makes
ConstructorLogCalls(e) == LogCalls(e)

\* the assignments as they would be if every parameter had the default ''
AssignParamPropsDefaulted(kind, e, args) ==
    LET props == ParamProps(kind)
        val(v) == IF v.t = "undefined" THEN StrV("") ELSE v
    IN IF Len(props) = 1
       THEN [e EXCEPT ![props[1]] = val(args[1])]
       ELSE [e EXCEPT ![props[1]] = val(args[1]), ![props[2]] = val(args[2])]

\* the assignments a concrete constructor makes after super() has returned
AssignParamProps(kind, e, args) ==
    LET props == ParamProps(kind) IN
    IF Len(props) = 1
    THEN [e EXCEPT ![props[1]] = args[1]]
    ELSE [e EXCEPT ![props[1]] = args[1], ![props[2]] = args[2]]

\* BaseError's constructor up to `logger || new Logger(name)`
BaseErrorEnter ==
    /\ stack # <<>> /\ exc = <<>>
    /\ Top.fn = "Error" /\ Top.pc = "super"
    /\ LET lg == SuperLogger(Top.kind, Top.lg)
           e == [BlankError EXCEPT !.cls = NewTargetPrototype(Top.kind),
                                   !.message =
                                       SuperMessage(Top.kind, Top.message),
                                   !.name = SuperName(Top.kind)]
       IN IF lg # UndefinedLogger
          THEN /\ stack' = SetTop([Top EXCEPT !.pc = "log",
                                              !.obj = [e EXCEPT !.logger = lg]])
               /\ exc' = <<>>
          ELSE Invoke(SetTop([Top EXCEPT !.pc = "newLogger", !.obj = e]),
                      LoggerFrame(e.name, DefaultLogFilePath))
    /\ UNCHANGED <<dirs, loggers, errors, emissions, call, made, api>>

\* the Logger constructor: setLogFilePath(this.logFilePath) inside try
LoggerConstruct ==
    /\ stack # <<>> /\ exc = <<>>
    /\ Top.fn = "Logger" /\ Top.pc = "try"
    /\ LET dir == Dirname(Top.self.logFilePath)
           out == SetLogFilePathOutcome(dirs, Top.self.logFilePath, FALSE)
       IN IF out = "LogDirectoryNotFoundError"
          THEN /\ Invoke(SetTop([Top EXCEPT !.pc = "inSet"]),
                         ErrorFrame("LogDirectoryNotFoundError",
                                    "Log directory does not exist",
                                    <<StrV(dir)>>, UndefinedLogger))
               /\ UNCHANGED <<loggers, call>>
          ELSE \* initLogger ran; the constructor returns
               /\ loggers' = Append(loggers, Top.self)
               /\ exc' = <<>>
               /\ IF Len(stack) = 1
                  THEN \* to the caller
                       /\ stack' = <<>>
                       /\ call' = [call EXCEPT !.status = "returned",
                                               !.target = Len(loggers) + 1]
                  ELSE \* to BaseError's constructor
                       /\ stack' = [Pop EXCEPT ![Len(stack) - 1] =
                               [Caller EXCEPT !.pc = "log",
                                              !.obj.logger = Len(loggers) + 1]]
                       /\ UNCHANGED call
    /\ UNCHANGED <<dirs, errors, emissions, made, api>>

\* what happens to an error object once its constructor has returned it
Deliver(e) ==
    IF Len(stack) = 1
    THEN \* to the caller
         /\ errors' = Append(errors, e)
         /\ made' = Append(made, [kind |-> Top.kind, message |-> Top.message,
                                  args |-> Top.args])
         /\ call' = [call EXCEPT !.status = "returned"]
         /\ exc' = <<>>
    ELSE \* to `throw new ...` in setLogFilePath or in the catch block
         /\ exc' = <<e>>
         /\ UNCHANGED <<errors, call, made>>

\* the rest of BaseError's constructor as it would be if the line carried
\* the number of Loggers built so far
BaseErrorLogTagged ==
    /\ stack # <<>> /\ exc = <<>>
    /\ Top.fn = "Error" /\ Top.pc = "log"
    /\ emissions' = emissions \o
          [k \in 1..Len(ConstructorLogCalls(Top.obj)) |->
              [ConstructorLogCalls(Top.obj)[k] EXCEPT
                  !.message = @ \o " #" \o ToString(Len(loggers))]]
    /\ Deliver(AssignParamProps(Top.kind, Top.obj, Top.args))
    /\ stack' = Pop
    /\ UNCHANGED <<dirs, loggers, api>>

\* the rest of BaseError's constructor, this.log() included, and then the
\* rest of the concrete constructor
BaseErrorLog ==
    /\ stack # <<>> /\ exc = <<>>
    /\ Top.fn = "Error" /\ Top.pc = "log"
    /\ emissions' = emissions \o ConstructorLogCalls(Top.obj)
    /\ Deliver(AssignParamProps(Top.kind, Top.obj, Top.args))
    /\ stack' = Pop
    /\ UNCHANGED <<dirs, loggers, api>>

\* the catch block of the Logger constructor
LoggerCatch ==
    /\ stack # <<>> /\ exc # <<>>
    /\ Top.fn = "Logger" /\ Top.pc = "inSet"
    /\ Invoke(SetTop([Top EXCEPT !.pc = "inCatch"]),
              ErrorFrame("LoggerInitializationError",
                         "Failed to initialize logger:",
                         <<StrV(exc[1].message)>>, UndefinedLogger))
    /\ UNCHANGED <<dirs, loggers, errors, emissions, call, made, api>>

\* an exception leaves a frame that does not catch it: one outside the try
\* blocks of the Logger constructor and of ApiService.fetch
Unwind ==
    /\ stack # <<>> /\ exc # <<>>
    /\ ~(Top.fn = "Logger" /\ Top.pc = "inSet")
    /\ ~(Top.fn = "fetch" /\ Top.pc = "try")
    /\ ~(Top.fn = "fetch" /\ Top.pc = "inCatch"
           /\ exc[1].cls = "NetworkError")
    /\ stack' = Pop
    /\ UNCHANGED <<dirs, loggers, errors, emissions, exc, call, made, api>>

\* the exception reaches the caller
Uncaught ==
    /\ stack = <<>> /\ exc # <<>>
    /\ call' = [call EXCEPT !.status = "threw", !.thrown = exc[1]]
    /\ exc' = <<>>
    /\ UNCHANGED <<dirs, loggers, errors, emissions, stack, made, api>>

(***************************************************************************)
(* What the caller does                                                    *)
(***************************************************************************)
Idle == stack = <<>> /\ exc = <<>>

\* new Kind(...args), with lg where the caller would supply a logger, by a
\* caller that keeps up to capacity errors
ConstructUpTo(capacity, kind, message, args, lg) ==
    /\ Idle
    /\ Len(errors) < capacity
    /\ Len(emissions) < MaxEmissions
    /\ stack' = <<ErrorFrame(kind, message, args, lg)>>
    /\ call' = [NoCall EXCEPT !.op = "construct", !.status = "running",
                              !.kind = kind, !.message = message,
                              !.args = args, !.lg = lg,
                              !.emBefore = Len(emissions),
                              !.lgBefore = Len(loggers), !.dirs = dirs]
    /\ UNCHANGED <<dirs, loggers, errors, emissions, exc, made, api>>

Construct(kind, message, args, lg) ==
    ConstructUpTo(MaxErrors, kind, message, args, lg)

\* errors[i].log(lg), by a caller that makes calls while fewer than capacity
\* emissions are on record: log() declares no parameter, an argument is
\* ignored
LogUpTo(capacity, i, lg) ==
    /\ Idle
    /\ i \in 1..Len(errors)
    /\ Len(emissions) < capacity
    /\ emissions' = emissions \o LogCalls(errors[i])
    /\ call' = [NoCall EXCEPT !.op = "log", !.status = "returned",
                              !.kind = errors[i].cls, !.lg = lg,
                              !.target = i,
                              !.emBefore = Len(emissions),
                              !.lgBefore = Len(loggers), !.dirs = dirs]
    /\ UNCHANGED <<dirs, loggers, errors, stack, exc, made, api>>

\* errors[i].log(lg) as it would be if log() kept the logger it is given
LogRebinding(i, lg) ==
    /\ Idle
    /\ i \in 1..Len(errors)
    /\ Len(emissions) < MaxEmissions
    /\ emissions' = emissions \o LogCalls(errors[i])
    /\ errors' = [errors EXCEPT ![i].logger =
                     IF lg = UndefinedLogger THEN @ ELSE lg]
    /\ call' = [NoCall EXCEPT !.op = "log", !.status = "returned",
                              !.kind = errors[i].cls, !.lg = lg,
                              !.target = i,
                              !.emBefore = Len(emissions),
                              !.lgBefore = Len(loggers), !.dirs = dirs]
    /\ UNCHANGED <<dirs, loggers, stack, exc, made, api>>

Log(i, lg) == LogUpTo(MaxEmissions, i, lg)

\* errors[i].toString()
ToStringCall(i) ==
    /\ Idle
    /\ i \in 1..Len(errors)
    /\ call' = [NoCall EXCEPT !.op = "toString", !.status = "returned",
                              !.kind = errors[i].cls, !.target = i,
                              !.value = ToStringValue(errors[i]),
                              !.emBefore = Len(emissions),
                              !.lgBefore = Len(loggers), !.dirs = dirs]
    /\ UNCHANGED <<dirs, loggers, errors, emissions, stack, exc, made, api>>

\* new Logger(context, logFilePath) by the caller; a Logger whose directory
\* is missing logs its LogDirectoryNotFoundError and its
\* LoggerInitializationError when they can be constructed
NewLogger(context, logFilePath) ==
    /\ Idle
    /\ Len(loggers) < MaxLoggers
    /\ Len(emissions) + 2 <= MaxEmissions
    /\ stack' = <<LoggerFrame(context, logFilePath)>>
    /\ call' = [NoCall EXCEPT !.op = "newLogger", !.status = "running",
                              !.context = context, !.path = logFilePath,
                              !.emBefore = Len(emissions),
                              !.lgBefore = Len(loggers), !.dirs = dirs]
    /\ UNCHANGED <<dirs, loggers, errors, emissions, exc, made, api>>

Next ==
    \/ \E kind \in Kinds, message \in Messages, lg \in LoggerArgs :
         \E args \in ArgLists(kind) : Construct(kind, message, args, lg)
    \/ BaseErrorEnter
    \/ LoggerConstruct
    \/ BaseErrorLog
    \/ LoggerCatch
    \/ Unwind
    \/ Uncaught
    \/ \E i \in 1..MaxErrors, lg \in LoggerArgs : Log(i, lg)
    \/ \E i \in 1..MaxErrors : ToStringCall(i)

Spec == Init /\ [][Next]_vars

(***************************************************************************)
(* A caller that keeps one error more, of a few kinds                      *)
(***************************************************************************)
\* a kind with a numeric field and a kind with an array field
PairKinds == {"RateLimitError", "ValidationError"}

NextPair ==
    \/ \E kind \in PairKinds, message \in PairMessages, lg \in LoggerArgs :
         \E args \in ArgLists(kind) :
             ConstructUpTo(MaxErrors + 1, kind, message, args, lg)
    \/ BaseErrorEnter
    \/ LoggerConstruct
    \/ BaseErrorLog
    \/ LoggerCatch
    \/ Unwind
    \/ Uncaught
    \/ \E i \in 1..(MaxErrors + 1), lg \in LoggerArgs :
         LogUpTo(MaxEmissions + 1, i, lg)

SpecPair == Init /\ [][NextPair]_vars

(***************************************************************************)
(* A caller that constructs Loggers                                        *)
(***************************************************************************)
Contexts == {"TestContext"}

LogFilePaths == {DefaultLogFilePath, TestLogFile}

InitLogger ==
    /\ dirs \in SUBSET (Directories \cup TestDirectories)
    /\ loggers = <<>>
    /\ errors = <<>>
    /\ emissions = <<>>
    /\ stack = <<>>
    /\ exc = <<>>
    /\ call = NoCall
    /\ made = <<>>
    /\ api = NoApi

NextLogger ==
    \/ \E context \in Contexts, logFilePath \in LogFilePaths :
         NewLogger(context, logFilePath)
    \/ BaseErrorEnter
    \/ LoggerConstruct
    \/ BaseErrorLog
    \/ LoggerCatch
    \/ Unwind
    \/ Uncaught

SpecLogger == InitLogger /\ [][NextLogger]_vars

(***************************************************************************)
(* A caller that configures and uses the Logger it constructed             *)
(***************************************************************************)
\* the frame of a method the caller called that is about to throw
MethodFrame(fn) == [LoggerFrame("", "") EXCEPT !.fn = fn, !.pc = "throw"]

\* the Loggers the caller constructed itself
Held(i) == i \in 1..Len(loggers) /\ loggers[i].context \in Contexts

\* a further log file path the caller sets
NewLogFile == "test_logs/subdir/new.log"

SetPaths == LogFilePaths \cup {NewLogFile}

FileNames == {"app.log"}

LogFormats == {DefaultLogFormat, <<"[", "{level}", "] ", "{message}">>}

\* the levels of info(), warn(), error(), debug() and verbose()
MethodLevels == {"info", "warn", "error", "debug", "verbose"}

\* the levels the caller passes to setLogLevel
SetLevels == {"error", "debug"}

\* the transport objects the caller adds and removes
consoleTransport == ConsoleTransport(1)

CallerTransports == {consoleTransport}

\* logger.setLogFilePath(filePath, { recursive }); fileExists says whether
\* the log file is there
SetLogFilePath(i, filePath, recursive, fileExists) ==
    /\ Idle
    /\ Held(i)
    /\ Len(emissions) < MaxEmissions
    /\ LET run == SetLogFilePathRun(dirs, fileExists, filePath, recursive)
           moved == [loggers[i] EXCEPT !.logFilePath = filePath]
           started == [NoCall EXCEPT !.op = "setLogFilePath",
                                     !.target = i, !.path = filePath,
                                     !.recursive = recursive,
                                     !.fileExists = fileExists,
                                            !.emBefore = Len(emissions),
                                     !.lgBefore = Len(loggers),
                                     !.dirs = dirs]
       IN /\ dirs' = run.dirs
          /\ IF run.throws = ""
             THEN /\ loggers' = [loggers EXCEPT ![i] = initLogger(moved)]
                  /\ call' = [started EXCEPT !.status = "returned"]
                  /\ UNCHANGED <<stack, exc>>
             ELSE /\ loggers' = [loggers EXCEPT ![i] = moved]
                  /\ call' = [started EXCEPT !.status = "running"]
                  /\ Invoke(<<MethodFrame("setLogFilePath")>>,
                            IF run.throws = "LogDirectoryNotFoundError"
                            THEN ErrorFrame("LogDirectoryNotFoundError",
                                            "Log directory does not exist",
                                            <<StrV(Dirname(filePath))>>,
                                            UndefinedLogger)
                            ELSE ErrorFrame("FileNotFoundError",
                                            "Log file does not exist",
                                            <<StrV(filePath)>>,
                                            UndefinedLogger))
    /\ UNCHANGED <<errors, emissions, made, api>>

\* logger.setLogFileName(fileName); nothing in its try block throws
SetLogFileName(i, fileName) ==
    /\ Idle
    /\ Held(i)
    /\ loggers' = [loggers EXCEPT ![i] =
                      initLogger([@ EXCEPT
                          !.logFileName = fileName,
                          !.logFilePath =
                              PathJoin(Dirname(@), fileName)])]
    /\ call' = [NoCall EXCEPT !.op = "setLogFileName",
                              !.status = "returned", !.target = i,
                              !.emBefore = Len(emissions),
                              !.lgBefore = Len(loggers), !.dirs = dirs]
    /\ UNCHANGED <<dirs, errors, emissions, stack, exc, made, api>>

\* logger.setLogFormat(format)
SetLogFormat(i, fmt) ==
    /\ Idle
    /\ Held(i)
    /\ loggers' = [loggers EXCEPT ![i] =
                      initLogger([@ EXCEPT !.logFormat = fmt])]
    /\ call' = [NoCall EXCEPT !.op = "setLogFormat",
                              !.status = "returned", !.target = i,
                              !.emBefore = Len(emissions),
                              !.lgBefore = Len(loggers), !.dirs = dirs]
    /\ UNCHANGED <<dirs, errors, emissions, stack, exc, made, api>>

\* logger.setLogLevel(level)
SetLogLevel(i, level) ==
    /\ Idle
    /\ Held(i)
    /\ loggers' = [loggers EXCEPT ![i].level = level]
    /\ call' = [NoCall EXCEPT !.op = "setLogLevel",
                              !.status = "returned", !.target = i,
                              !.level = level,
                              !.emBefore = Len(emissions),
                              !.lgBefore = Len(loggers), !.dirs = dirs]
    /\ UNCHANGED <<dirs, errors, emissions, stack, exc, made, api>>

\* logger.addTransport(t): winston pipes to t once more
AddTransport(i, t) ==
    /\ Idle
    /\ Held(i)
    /\ Len(loggers[i].transports) < 3 + MaxAdded
    /\ loggers' = [loggers EXCEPT ![i].transports = Append(@, t)]
    /\ call' = [NoCall EXCEPT !.op = "addTransport",
                              !.status = "returned", !.target = i,
                              !.transport = t.id,
                              !.emBefore = Len(emissions),
                              !.lgBefore = Len(loggers), !.dirs = dirs]
    /\ UNCHANGED <<dirs, errors, emissions, stack, exc, made, api>>

\* the transports without the first pipe to t
RECURSIVE Unpipe(_, _)
Unpipe(ts, t) ==
    IF ts = <<>> THEN <<>>
    ELSE IF Head(ts) = t THEN Tail(ts)
    ELSE <<Head(ts)>> \o Unpipe(Tail(ts), t)

\* logger.removeTransport(t)
RemoveTransport(i, t) ==
    /\ Idle
    /\ Held(i)
    /\ loggers' = [loggers EXCEPT ![i].transports = Unpipe(@, t)]
    /\ call' = [NoCall EXCEPT !.op = "removeTransport",
                              !.status = "returned", !.target = i,
                              !.transport = t.id,
                              !.emBefore = Len(emissions),
                              !.lgBefore = Len(loggers), !.dirs = dirs]
    /\ UNCHANGED <<dirs, errors, emissions, stack, exc, made, api>>

\* logger.info(message), .warn, .error, .debug, .verbose: logWithLevel with
\* the method's level; the call and the lines written are on record in call
LogWithLevel(i, level, message) ==
    /\ Idle
    /\ Held(i)
    /\ call' = [NoCall EXCEPT !.op = "logWithLevel",
                              !.status = "returned", !.target = i,
                              !.level = level, !.message = message,
                              !.written =
                                  LogWithLevelWrites(loggers[i], level,
                                                     message),
                              !.emBefore = Len(emissions),
                              !.lgBefore = Len(loggers), !.dirs = dirs]
    /\ UNCHANGED <<dirs, loggers, errors, emissions, stack, exc, made, api>>

InitOps ==
    /\ dirs \in SUBSET (Directories \cup TestDirectories)
    /\ loggers = <<>>
    /\ errors = <<>>
    /\ emissions = <<>>
    /\ stack = <<>>
    /\ exc = <<>>
    /\ call = NoCall
    /\ made = <<>>
    /\ api = NoApi

NextOps ==
    \/ \E context \in Contexts, logFilePath \in LogFilePaths :
         /\ \A i \in 1..Len(loggers) : ~Held(i)
         /\ NewLogger(context, logFilePath)
    \/ BaseErrorEnter
    \/ LoggerConstruct
    \/ BaseErrorLog
    \/ LoggerCatch
    \/ Unwind
    \/ Uncaught
    \/ \E i \in 1..MaxLoggers, filePath \in SetPaths,
          recursive \in BOOLEAN, fileExists \in BOOLEAN :
         SetLogFilePath(i, filePath, recursive, fileExists)
    \/ \E i \in 1..MaxLoggers, fileName \in FileNames :
         SetLogFileName(i, fileName)
    \/ \E i \in 1..MaxLoggers, fmt \in LogFormats : SetLogFormat(i, fmt)
    \/ \E i \in 1..MaxLoggers, level \in SetLevels : SetLogLevel(i, level)
    \/ \E i \in 1..MaxLoggers, t \in CallerTransports : AddTransport(i, t)
    \/ \E i \in 1..MaxLoggers, t \in CallerTransports :
         RemoveTransport(i, t)
    \/ \E i \in 1..MaxLoggers, level \in MethodLevels,
          message \in Messages : LogWithLevel(i, level, message)

SpecOps == InitOps /\ [][NextOps]_vars

(***************************************************************************)
(* ApiService (src/src/api.ts), constructed with an injected logger        *)
(***************************************************************************)
EndpointIds == {"users", "orders"}

EndpointNames == {"Users", "Users v2"}

EndpointUrls == {"https://api.example.com/users"}

\* what the awaited fetch(url) and response.json() come to: the request
\* rejected, or a response with a status and a body that parses or not
Responses ==
    {[rejected |-> TRUE, status |-> 0, parses |-> FALSE]}
      \cup {[rejected |-> FALSE, status |-> st, parses |-> ps] :
                st \in {200, 404, 500}, ps \in BOOLEAN}

\* response.ok
Ok(response) == response.status \in 200..299

\* response.statusText
StatusText(response) ==
    CASE response.status = 200 -> "OK"
      [] response.status = 404 -> "Not Found"
      [] response.status = 500 -> "Internal Server Error"

\* the body response.json() resolves to
ParsedBody == "{data}"

\* what the catch block of fetch receives when the request is rejected or
\* the body does not parse
RequestFailure(response) ==
    IF response.rejected
    THEN [BlankError EXCEPT !.cls = "TypeError", !.name = "TypeError",
                            !.message = "fetch failed"]
    ELSE [BlankError EXCEPT !.cls = "SyntaxError", !.name = "SyntaxError",
                            !.message = "Unexpected token"]

\* a call the ApiService makes on its logger
ApiLog(level, message) ==
    [logger |-> mockLogger, level |-> level, message |-> message]

\* the frame of ApiService.fetch; message holds the endpoint's name
FetchFrame(pc, name) ==
    [LoggerFrame("", "") EXCEPT !.fn = "fetch", !.pc = pc, !.message = name]

\* this.endpoints.has(id)
Has(id) == \E e \in api.endpoints : e.id = id

\* this.endpoints.get(id)
Get(id) == CHOOSE e \in api.endpoints : e.id = id

\* addEndpoint as it would be without its test for a registered id
AddEndpointOverwrites(id, name, url) ==
    /\ Idle
    /\ Len(emissions) < MaxEmissions
    /\ api' = [api EXCEPT !.endpoints =
                  {e \in @ : e.id # id}
                    \cup {[id |-> id, name |-> name, url |-> url]}]
    /\ emissions' = Append(emissions,
          ApiLog("info", "Added new endpoint: " \o name
                           \o " (" \o id \o ")"))
    /\ call' = [NoCall EXCEPT !.op = "addEndpoint", !.id = id,
                              !.status = "returned", !.apiBefore = api,
                              !.emBefore = Len(emissions),
                              !.lgBefore = Len(loggers), !.dirs = dirs]
    /\ UNCHANGED <<dirs, loggers, errors, stack, exc, made>>

\* apiService.addEndpoint(id, name, url)
AddEndpoint(id, name, url) ==
    /\ Idle
    /\ Len(emissions) < MaxEmissions
    /\ IF Has(id)
       THEN /\ call' = [NoCall EXCEPT
                          !.op = "addEndpoint", !.id = id,
                          !.status = "threw", !.apiBefore = api,
                          !.thrown =
                              [BlankError EXCEPT
                                  !.cls = "Error", !.name = "Error",
                                  !.message = "Endpoint with ID '" \o id
                                                \o "' already exists."],
                          !.emBefore = Len(emissions),
                          !.lgBefore = Len(loggers), !.dirs = dirs]
            /\ UNCHANGED <<api, emissions>>
       ELSE /\ api' = [api EXCEPT !.endpoints =
                          @ \cup {[id |-> id, name |-> name, url |-> url]}]
            /\ emissions' = Append(emissions,
                  ApiLog("info", "Added new endpoint: " \o name
                                   \o " (" \o id \o ")"))
            /\ call' = [NoCall EXCEPT
                          !.op = "addEndpoint", !.id = id,
                          !.status = "returned", !.apiBefore = api,
                          !.emBefore = Len(emissions),
                          !.lgBefore = Len(loggers), !.dirs = dirs]
    /\ UNCHANGED <<dirs, loggers, errors, stack, exc, made>>

\* apiService.fetch(endpointId) up to the first throw or to its return;
\* response is what the request comes to when one is issued
Fetch(endpointId, response) ==
    /\ Idle
    /\ Len(emissions) <= MaxEmissions
    /\ api.requests < MaxRequests
    /\ LET started == [NoCall EXCEPT
                          !.op = "fetch", !.id = endpointId,
                          !.status = "running", !.apiBefore = api,
                          !.args = <<response>>,
                          !.emBefore = Len(emissions),
                          !.lgBefore = Len(loggers), !.dirs = dirs]
       IN IF ~Has(endpointId)
          THEN \* before the try block
               /\ emissions' = Append(emissions,
                     ApiLog("error", "Endpoint not found: " \o endpointId))
               /\ call' = started
               /\ Invoke(<<FetchFrame("throw", "")>>,
                         ErrorFrame("ApiError",
                                    "Endpoint not found: " \o endpointId,
                                    <<NumV(404), Undef>>, UndefinedLogger))
               /\ UNCHANGED api
          ELSE LET endpoint == Get(endpointId)
                   fetching == ApiLog("info", "Fetching from endpoint: "
                                                \o endpoint.name)
               IN /\ api' = [api EXCEPT !.requests = @ + 1]
                  /\ IF response.rejected
                     THEN /\ emissions' = Append(emissions, fetching)
                          /\ call' = started
                          /\ stack' = <<FetchFrame("try", endpoint.name)>>
                          /\ exc' = <<RequestFailure(response)>>
                     ELSE IF ~Ok(response)
                     THEN /\ emissions' = emissions \o
                               << fetching,
                                  ApiLog("error", "API request failed: "
                                           \o StatusText(response)) >>
                          /\ call' = started
                          /\ Invoke(<<FetchFrame("try", endpoint.name)>>,
                                    ErrorFrame("ApiError",
                                        "API request failed: "
                                          \o StatusText(response),
                                        <<NumV(response.status), Undef>>,
                                        UndefinedLogger))
                     ELSE IF ~response.parses
                     THEN /\ emissions' = Append(emissions, fetching)
                          /\ call' = started
                          /\ stack' = <<FetchFrame("try", endpoint.name)>>
                          /\ exc' = <<RequestFailure(response)>>
                     ELSE /\ emissions' = emissions \o
                               << fetching,
                                  ApiLog("info",
                                         "Successfully fetched data from "
                                           \o endpoint.name) >>
                          /\ call' = [started EXCEPT
                                        !.status = "returned",
                                        !.value = ParsedBody]
                          /\ UNCHANGED <<stack, exc>>
    /\ UNCHANGED <<dirs, loggers, errors, made>>

\* the catch block of fetch: an ApiError is thrown on as it is, for
\* anything else a NetworkError is constructed
FetchCatch ==
    /\ stack # <<>> /\ exc # <<>>
    /\ Top.fn = "fetch" /\ Top.pc = "try"
    /\ IF InstanceOf(exc[1], "ApiError")
       THEN /\ stack' = SetTop([Top EXCEPT !.pc = "throw"])
            /\ UNCHANGED exc
       ELSE Invoke(SetTop([Top EXCEPT !.pc = "inCatch"]),
                   ErrorFrame("NetworkError",
                              "Network error while fetching "
                                \o Top.message,
                              <<StrV(exc[1].message)>>, UndefinedLogger))
    /\ UNCHANGED <<dirs, loggers, errors, emissions, call, made, api>>

\* the rest of the catch block: the NetworkError is logged and thrown
FetchThrowNetworkError ==
    /\ stack # <<>> /\ exc # <<>>
    /\ Top.fn = "fetch" /\ Top.pc = "inCatch"
    /\ exc[1].cls = "NetworkError"
    /\ emissions' = Append(emissions, ApiLog("error", exc[1].message))
    /\ stack' = SetTop([Top EXCEPT !.pc = "throw"])
    /\ UNCHANGED <<dirs, loggers, errors, exc, call, made, api>>

InitApi ==
    /\ dirs \in SUBSET Directories
    /\ loggers = <<>>
    /\ errors = <<>>
    /\ emissions = <<>>
    /\ stack = <<>>
    /\ exc = <<>>
    /\ call = NoCall
    /\ made = <<>>
    /\ api = NoApi

NextApi ==
    \/ \E id \in EndpointIds, name \in EndpointNames,
          url \in EndpointUrls : AddEndpoint(id, name, url)
    \/ \E endpointId \in EndpointIds, response \in Responses :
         Fetch(endpointId, response)
    \/ FetchCatch
    \/ FetchThrowNetworkError
    \/ BaseErrorEnter
    \/ LoggerConstruct
    \/ BaseErrorLog
    \/ LoggerCatch
    \/ Unwind
    \/ Uncaught

SpecApi == InitApi /\ [][NextApi]_vars

(***************************************************************************)
(* Vocabulary of the properties                                            *)
(***************************************************************************)
\* the logger calls made since the caller's last call began
NewEmissions == SubSeq(emissions, call.emBefore + 1, Len(emissions))

\* the caller's last call was a construction and it has returned
Constructed == call.op = "construct" /\ call.status = "returned"

\* the caller's last call was e.log(...) and it has returned
Logged == call.op = "log" /\ call.status = "returned"

\* the error the caller's last call made or used
Subject ==
    IF call.op \in {"log", "toString"}
    THEN errors[call.target] ELSE errors[Len(errors)]

\* the caller's last call was e.toString()
Stringified == call.op = "toString" /\ call.status = "returned"

\* what the caller passed when it constructed the error its last call made
\* or used
SubjectMade ==
    IF call.op \in {"log", "toString"}
    THEN made[call.target] ELSE made[Len(made)]

\* an argument list of a kind with every argument undefined
NoArgs(kind) == [i \in 1..Len(ParamProps(kind)) |-> Undef]

\* the emissions made on the logger error i is bound to, by position
EmissionsOf(i) ==
    {k \in 1..Len(emissions) : emissions[k].logger = errors[i].logger}

\* the line error i emitted during its construction: the first on its logger
ConstructionLine(i) ==
    emissions[CHOOSE k \in EmissionsOf(i) :
                  \A l \in EmissionsOf(i) : k <= l].message

\* the lines error i emitted in log() calls after its construction
LogLines(i) ==
    {emissions[k].message :
        k \in {l \in EmissionsOf(i) : \E f \in EmissionsOf(i) : f < l}}

\* the messages of the emissions made on the logger error i is bound to
LinesOf(i) ==
    {emissions[k].message :
        k \in {j \in 1..Len(emissions) :
                  emissions[j].logger = errors[i].logger}}

\* the values of the parameter properties of e, in declaration order
ArgsOf(e) == [i \in 1..Len(ParamProps(e.cls)) |-> e[ParamProps(e.cls)[i]]]

\* an optional clause of a documented template: there iff the field is
Clause(v, before, after) ==
    IF v.t = "undefined" THEN ""
    ELSE before \o (IF v.t = "array" THEN Join(v.a, ", ") ELSE Str(v))
           \o after

\* a required field of a documented template
Field(v) == Str(v)

\* the documented template of each kind, filled in
Template(kind, message, args) ==
    CASE kind = "ApiError" ->
           "API Error " \o Field(args[1]) \o ": " \o message
             \o Clause(args[2], " (Request ID: ", ")")
      [] kind = "NetworkError" ->
           "Network Error" \o Clause(args[1], " (", ")") \o ": " \o message
      [] kind = "ParseError" ->
           "Parse Error" \o Clause(args[1], " in ", "") \o ": " \o message
      [] kind = "ValidationError" ->
           "Validation Error: " \o message
             \o Clause(args[1], " (Fields: ", ")")
      [] kind = "AuthenticationError" ->
           "Authentication Error: " \o message
             \o Clause(args[1], " (User ID: ", ")")
      [] kind = "AuthorizationError" ->
           "Authorization Error: " \o message
             \o Clause(args[1], " (Resource: ", ")")
             \o Clause(args[2], " (Action: ", ")")
      [] kind = "RateLimitError" ->
           "Rate Limit Error: " \o message
             \o Clause(args[1], " (Retry After: ", "s)")
      [] kind = "DatabaseError" ->
           "Database Error: " \o message
             \o Clause(args[1], " (Operation: ", ")")
      [] kind = "ConfigurationError" ->
           "Configuration Error: " \o message
             \o Clause(args[1], " (Config Key: ", ")")
      [] kind = "ExternalServiceError" ->
           "External Service Error (" \o Field(args[1]) \o "): " \o message
      [] kind = "FileNotFoundError" ->
           "File Not Found Error: " \o message
             \o Clause(args[1], " (Path: ", ")")
      [] kind = "LogDirectoryNotFoundError" ->
           "Log Directory Not Found Error: " \o message
             \o " (Directory: " \o Field(args[1]) \o ")"
      [] kind = "LogFileOperationError" ->
           "Log File Operation Error: " \o message
             \o " (File: " \o Field(args[1])
             \o Clause(args[2], ", Operation: ", "") \o ")"
      [] kind = "LoggerInitializationError" ->
           "Logger Initialization Error: " \o message
             \o Clause(args[1], " (Component: ", ")")

\* every field of the kind was supplied, none empty or zero
AllSupplied(args) == \A i \in 1..Len(args) : Truthy(args[i])

\* some optional field was left out, the others are neither empty nor zero
SomeOmitted(args) ==
    /\ \E i \in 1..Len(args) : args[i].t = "undefined"
    /\ \A i \in 1..Len(args) : args[i].t = "undefined" \/ Truthy(args[i])

\* some optional field was supplied as the empty string or as zero
SomeFalsySupplied(args) ==
    \E i \in 1..Len(args) : args[i].t # "undefined" /\ ~Truthy(args[i])

(***************************************************************************)
(* Properties                                                              *)
(***************************************************************************)
\* C1: when the constructor of a concrete error returns, it has made
\* exactly one call to a logger operation: error, on the logger the new
\* error is bound to.
C1_OneErrorCallPerConstruction ==
    Constructed =>
        /\ Len(NewEmissions) = 1
        /\ NewEmissions[1].level = "error"
        /\ NewEmissions[1].logger = errors[Len(errors)].logger

\* C1 witness: a construction has returned, with calls made before it
C1_Witness ==
    /\ Constructed
    /\ call.kind = "DatabaseError"
    /\ errors[Len(errors)].logger \in 1..Len(loggers)

\* C2: the line emitted during construction is rendered from the field
\* values passed to the constructor: it is the line log() renders from the
\* constructed error.
C2_ConstructionLineEmbedsFields ==
    Constructed =>
        \A i \in 1..Len(NewEmissions) :
            NewEmissions[i].message = Render(errors[Len(errors)])

\* C3: the chain Logger constructor -> setLogFilePath -> new
\* LogDirectoryNotFoundError / LoggerInitializationError -> BaseError
\* constructor -> new Logger is bounded: no construction recurses until the
\* call stack is exhausted.
C3_ConstructionNeverExhaustsStack ==
    /\ \A i \in 1..Len(exc) : exc[i].name # "RangeError"
    /\ call.thrown.name # "RangeError"

\* C4: a construction without a logger, begun while the log directory does
\* not exist, ends by raising a LoggerInitializationError.
C4_MissingDirectoryRaisesLoggerInitializationError ==
    ( /\ call.op = "construct"
      /\ call.status \in {"returned", "threw"}
      /\ call.lg = UndefinedLogger
      /\ Dirname(DefaultLogFilePath) \notin call.dirs )
    => /\ call.status = "threw"
       /\ call.thrown.name = "LoggerInitializationError"

\* C5: an error constructed with a logger supplied is bound to that logger
\* and no default Logger is constructed; an error constructed without one is
\* bound to a Logger constructed for it, whose context is the error's name.
C5_SuppliedLoggerIsBound ==
    Constructed =>
        LET e == errors[Len(errors)] IN
        IF call.lg # UndefinedLogger
        THEN e.logger = call.lg /\ Len(loggers) = call.lgBefore
        ELSE /\ e.logger = Len(loggers)
             /\ Len(loggers) = call.lgBefore + 1
             /\ loggers[e.logger].context = e.name

\* C6: e.log(lg) with a logger argument sends the rendered line to lg.error.
C6_LogForwardsToGivenLogger ==
    (Logged /\ call.lg # UndefinedLogger) =>
        /\ Len(NewEmissions) = 1
        /\ NewEmissions[1].logger = call.lg
        /\ NewEmissions[1].level = "error"
        /\ NewEmissions[1].message = Render(Subject)

\* C7: when every field of the kind was supplied, neither empty nor zero,
\* each line log() emits for the error is the kind's template with every
\* clause present.
C7_AllFieldsRenderTemplate ==
    ((Constructed \/ Logged) /\ AllSupplied(ArgsOf(Subject))) =>
        \A i \in 1..Len(NewEmissions) :
            NewEmissions[i].message =
                Template(Subject.cls, Subject.message, ArgsOf(Subject))

\* C8: when an optional field was not supplied, each line log() emits for
\* the error is the kind's template without that field's clause.
C8_OmittedFieldOmitsClause ==
    ((Constructed \/ Logged) /\ SomeOmitted(ArgsOf(Subject))) =>
        \A i \in 1..Len(NewEmissions) :
            NewEmissions[i].message =
                Template(Subject.cls, Subject.message, ArgsOf(Subject))

\* C9: log() called on a constructed error renders the clause of an
\* optional field if and only if the field was supplied, also when it was
\* supplied as zero or as the empty string.
C9_ClauseIffSupplied ==
    (Logged /\ SomeFalsySupplied(ArgsOf(Subject))) =>
        \A i \in 1..Len(NewEmissions) :
            NewEmissions[i].message =
                Template(Subject.cls, Subject.message, ArgsOf(Subject))

\* C10: a call of log() on a constructed error makes exactly one call to a
\* logger operation: error, on the logger the error is bound to.
C10_OneErrorCallPerLog ==
    Logged =>
        /\ Len(NewEmissions) = 1
        /\ NewEmissions[1].level = "error"
        /\ NewEmissions[1].logger = errors[call.target].logger

\* C10 witness: log() has been called on an error that was constructed
\* and had logged itself before
C10_Witness ==
    /\ Logged
    /\ Len(emissions) >= 2
    /\ errors[call.target].logger \in 1..Len(loggers)

\* C11: every emission an error instance ever makes, the one made during its
\* construction and those of later log() calls, carries the same message.
C11_EveryEmissionSameMessage ==
    \A i \in 1..Len(errors) : Cardinality(LinesOf(i)) <= 1

\* C12: toString() returns the name of the class that was constructed, a
\* colon and a space, and the message that was passed, whatever the fields
\* are and whatever line log() renders.
C12_ToStringIsNameColonMessage ==
    Stringified =>
        call.value = SubjectMade.kind \o ": " \o SubjectMade.message

\* C12 witness: toString() was called on an ApiError whose log line differs
\* from its string form
C12_Witness ==
    /\ Stringified
    /\ SubjectMade.kind = "ApiError"
    /\ SubjectMade.args = <<NumV(404), StrV("REQ123")>>
    /\ call.value = "ApiError: Not Found"
    /\ Render(Subject) # call.value

\* C13: the name of a constructed error is the name of the class that was
\* constructed, one of the 14, and no two classes hand the same name to
\* BaseError.
C13_NameIsClassName ==
    /\ \A i \in 1..Len(errors) :
          errors[i].name = made[i].kind /\ errors[i].name \in Kinds
    /\ Cardinality({SuperName(kind) : kind \in Kinds}) = Cardinality(Kinds)

\* C13 witness: an AuthorizationError has been constructed and carries its
\* name
C13_Witness ==
    /\ Constructed
    /\ call.kind = "AuthorizationError"
    /\ errors[Len(errors)].name = "AuthorizationError"

\* C14: each field of a constructed error reads back as the value passed
\* for it, message reads back as the message passed, and an optional field
\* that was not passed reads undefined, not '' and not 0.
C14_FieldsReadBack ==
    \A i \in 1..Len(errors) :
        /\ errors[i].message = made[i].message
        /\ ArgsOf(errors[i]) = made[i].args
        /\ \A k \in 1..Len(made[i].args) :
              made[i].args[k] = Undef =>
                  /\ errors[i][ParamProps(made[i].kind)[k]].t = "undefined"
                  /\ errors[i][ParamProps(made[i].kind)[k]] # StrV("")
                  /\ errors[i][ParamProps(made[i].kind)[k]] # NumV(0)

\* C14 witness: an AuthorizationError was constructed with its resource
\* and without its action
C14_Witness ==
    /\ Constructed
    /\ call.kind = "AuthorizationError"
    /\ call.args = <<StrV("orders"), Undef>>
    /\ errors[Len(errors)].resource = StrV("orders")
    /\ errors[Len(errors)].action = Undef

\* C15: no step changes an error the caller holds: after any number of
\* log() and toString() calls its name, message, fields and bound logger
\* are what the constructor returned.
C15_LogAndToStringLeaveErrorUnchanged ==
    [][\A i \in 1..Len(errors) : errors'[i] = errors[i]]_vars

\* C15 witness: log() has been called twice on a constructed error, the
\* second time with a logger argument
C15_Witness ==
    /\ Logged
    /\ call.lg = mockLogger
    /\ Len(emissions) = 3
    /\ ArgsOf(Subject) = SubjectMade.args
    /\ Subject.logger \in 1..Len(loggers)

\* C16: a constructed error is an instance of the class that was
\* constructed and of no other concrete class, and its lines are rendered
\* by that class: the line of the log() call inside BaseError's constructor
\* is the class's template over the fields as they are then, and the line
\* of a later log() is the class's template over the fields passed.
C16_InstanceOfItsClassOnly ==
    /\ \A i \in 1..Len(errors) : \A kind \in Kinds :
          InstanceOf(errors[i], kind) <=> kind = made[i].kind
    /\ Constructed =>
          NewEmissions[1].message =
              Template(call.kind, call.message, NoArgs(call.kind))
    /\ (Logged /\ ~SomeFalsySupplied(SubjectMade.args)) =>
          NewEmissions[1].message =
              Template(SubjectMade.kind, SubjectMade.message,
                       SubjectMade.args)

\* C16 witness: log() was called on an AuthorizationError constructed with
\* both fields
C16_Witness ==
    /\ Logged
    /\ SubjectMade.kind = "AuthorizationError"
    /\ InstanceOf(Subject, "AuthorizationError")
    /\ AllSupplied(SubjectMade.args)

C20_MissingDirectoryIsCreated ==
    ( /\ call.op = "newLogger"
      /\ call.status \in {"returned", "threw"}
      /\ Dirname(call.path) \notin call.dirs )
    => /\ call.status = "returned"
       /\ Dirname(call.path) \in dirs
       /\ call.target \in 1..Len(loggers)
       /\ loggers[call.target].logFilePath = call.path

\* the caller's last call was setLogFilePath and it has ended
PathSet ==
    call.op = "setLogFilePath" /\ call.status \in {"returned", "threw"}

\* the caller's last call was one of info, warn, error, debug, verbose
Wrote == call.op = "logWithLevel" /\ call.status = "returned"

\* the files the transports of a Logger write to
FilesOf(lgr) ==
    {lgr.transports[k].filename :
        k \in {n \in 1..Len(lgr.transports) :
                  lgr.transports[n].kind = "File"}}

\* the transports attached to a Logger
Attached(lgr) == {lgr.transports[k] : k \in 1..Len(lgr.transports)}

\* C21: setLogFilePath on a path whose directory does not exist creates
\* the directory and its parents and returns, the Logger writing to the
\* path, when recursive is true; otherwise it throws a
\* LogDirectoryNotFoundError whose directoryPath is the directory of the
\* path, and creates nothing.
C21_MissingDirectoryCreatedOrReported ==
    (PathSet /\ Dirname(call.path) \notin call.dirs) =>
        IF call.recursive
        THEN /\ call.status = "returned"
             /\ WithParents(Dirname(call.path)) \subseteq dirs
             /\ call.path \in FilesOf(loggers[call.target])
        ELSE /\ call.status = "threw"
             /\ call.thrown.name = "LogDirectoryNotFoundError"
             /\ call.thrown.directoryPath = StrV(Dirname(call.path))
             /\ dirs = call.dirs

\* C22: setLogFilePath throws a FileNotFoundError carrying the file path
\* when the directory of the path exists, the log file does not, and
\* recursive is false or not given.
C22_MissingFileRaisesFileNotFoundError ==
    ( /\ PathSet
      /\ Dirname(call.path) \in call.dirs
      /\ ~call.fileExists
      /\ ~call.recursive )
    => /\ call.status = "threw"
       /\ call.thrown.name = "FileNotFoundError"
       /\ call.thrown.path = StrV(call.path)

\* C23: setLogLevel(L) puts L in force, and a message is written only if
\* its level is at least as severe as the level in force: at 'error',
\* info(...) writes nothing and error(...) writes a line.
C23_OnlyLevelOrMoreSevereIsWritten ==
    /\ (call.op = "setLogLevel" /\ call.status = "returned") =>
          loggers[call.target].level = call.level
    /\ Wrote =>
          LET lgr == loggers[call.target] IN
          /\ call.written # {} =>
                Severity(call.level) <= Severity(lgr.level)
          /\ (lgr.level = "error" /\ call.level = "info") =>
                call.written = {}
          /\ (lgr.level = "error" /\ call.level = "error") =>
                call.written # {}

\* C23 witness: info(...) was called on a Logger whose level is 'error'
\* and wrote nothing
C23_Witness ==
    /\ Wrote
    /\ call.level = "info"
    /\ loggers[call.target].level = "error"
    /\ call.written = {}

\* C24: on a Logger as its constructor left it, a message sent through
\* info, warn, error, debug or verbose is written to the log file, tagged
\* with the level in upper case.
C24_FreshLoggerWritesEveryLevel ==
    LET lgr == loggers[call.target] IN
    (Wrote /\ lgr = NewLoggerObject(lgr.context, lgr.logFilePath)) =>
        \E w \in call.written :
            /\ w.file = lgr.logFilePath
            /\ w.line = "[" \o ToUpperCase(call.level) \o "] - ["
                          \o Timestamp \o "] - [" \o lgr.context \o "] "
                          \o call.message
                          \o " {\"service\":\"user-service\"}"

\* C28: a setLogFilePath call that throws leaves the Logger as it was: its
\* recorded log file path and its transports are those before the call.
C28_FailedSetLogFilePathLeavesLogger ==
    [][(call'.op = "setLogFilePath" /\ call'.status = "running"
          /\ call'.target \in 1..Len(loggers)) =>
           loggers'[call'.target] = loggers[call'.target]]_vars

\* C29: the level of a Logger changes in setLogLevel calls only: no
\* setLogFormat, setLogFileName or setLogFilePath call changes it.
C29_LevelStaysUntilNextSetLogLevel ==
    [][\A i \in 1..Len(loggers) :
          (Held(i) /\ call'.op # "setLogLevel") =>
              loggers'[i].level = loggers[i].level]_vars

\* C30: a transport the caller added stays attached until removeTransport
\* is called for it, across setLogFormat, setLogFileName and setLogFilePath
\* calls, and is not attached after removeTransport.
C30_AddedTransportStaysUntilRemoved ==
    [][\A i \in 1..Len(loggers) : \A t \in CallerTransports :
          /\ (Held(i) /\ t \in Attached(loggers[i])
                /\ call'.op # "removeTransport") =>
                 t \in Attached(loggers'[i])
          /\ (Held(i) /\ call'.op = "removeTransport"
                /\ call'.target = i /\ call'.transport = t.id) =>
                 t \notin Attached(loggers'[i])]_vars

\* the caller's last call was fetch and it has ended
Fetched == call.op = "fetch" /\ call.status \in {"returned", "threw"}

\* the response the caller's last fetch came to, had a request been issued
Response == call.args[1]

\* C25: addEndpoint with an id that is already registered throws an Error
\* and leaves the registry unchanged; an endpoint once registered stays as
\* it is, and the registry holds at most one endpoint per id.
C25_DuplicateIdIsRejected ==
    [][/\ (call'.op = "addEndpoint" /\ call' # call
            /\ \E e \in api.endpoints : e.id = call'.id) =>
              /\ call'.status = "threw"
              /\ call'.thrown.name = "Error"
              /\ api'.endpoints = api.endpoints
       /\ api.endpoints \subseteq api'.endpoints
       /\ \A e1 \in api'.endpoints, e2 \in api'.endpoints :
              e1.id = e2.id => e1 = e2]_vars

\* C25 witness: addEndpoint was called with a registered id and another
\* name, and threw
C25_Witness ==
    /\ call.op = "addEndpoint"
    /\ call.status = "threw"
    /\ api.endpoints = {[id |-> "users", name |-> "Users",
                         url |-> "https://api.example.com/users"]}
    /\ call.id = "users"

\* C26: fetch for an id that is not registered throws an ApiError with
\* status 404 and issues no HTTP request, and no fetch changes the
\* registered endpoints.
C26_UnknownEndpointRaisesApiError404 ==
    /\ call.op = "fetch" => api.endpoints = call.apiBefore.endpoints
    /\ (Fetched /\ ~\E e \in call.apiBefore.endpoints : e.id = call.id) =>
          /\ call.status = "threw"
          /\ InstanceOf(call.thrown, "ApiError")
          /\ call.thrown.status = NumV(404)
          /\ api.requests = call.apiBefore.requests

\* C27: fetch on a registered endpoint returns the parsed body when the
\* response is ok and the body parses, throws an ApiError with the
\* response's status when the response is not ok, and throws a NetworkError
\* when the request is rejected or the body does not parse.
C27_FetchEndsInOneOfThreeWays ==
    (Fetched /\ \E e \in call.apiBefore.endpoints : e.id = call.id) =>
        IF ~Response.rejected /\ Ok(Response) /\ Response.parses
        THEN call.status = "returned" /\ call.value = ParsedBody
        ELSE IF ~Response.rejected /\ ~Ok(Response)
        THEN /\ call.status = "threw"
             /\ InstanceOf(call.thrown, "ApiError")
             /\ call.thrown.status = NumV(Response.status)
        ELSE /\ call.status = "threw"
             /\ InstanceOf(call.thrown, "NetworkError")

====
